---- MODULE Spec2Model ----
(***************************************************************************)
(* State-machine model of the freelanceflow-backend proposal workflow:     *)
(* the Proposal and Project collections, the proposal controller           *)
(* (createProposal, getProposals, updateProposalStatus, withdrawProposal,  *)
(* deleteProposal), the project controller's updateProject and the admin   *)
(* controller's setProjectStatus.                                          *)
(*                                                                         *)
(* Every action is one whole request handler, run without interleaving,    *)
(* except in the specifications that say otherwise.                        *)
(* The response of the last request, with the arguments it was called with *)
(* and the documents it loaded, is kept in the variable last.              *)
(*                                                                         *)
(* Spec is the write workflow on one project; SpecList, SpecPage and       *)
(* SpecProjects call the reads once on every collection content of a       *)
(* bounded shape; SpecConc serves two updateProposalStatus requests step   *)
(* by step, one database call at a time.                                   *)
(***************************************************************************)
EXTENDS Integers, Sequences, FiniteSets, TLC

\* ------------------------------------------------------------------ bounds
NumFreelancers == 2
\* _ids the Proposal collection hands out before the model stops creating
MaxProposals == 2
\* requests served in one behaviour of the workflow specification
MaxOps == 5
\* proposals in the collection when the listing is called
ListMaxProposals == 2
\* proposals in the collection when the pages of the listing are compared
PageMaxProposals == 21
\* requests served in one behaviour of the failure specification
FaultMaxOps == 4

\* ------------------------------------------------------------------ users
\* A user is <<role, n>>; req.user of an unauthenticated request is Anon.
Clients == {<<"client", 1>>, <<"client", 2>>}
Freelancers == {<<"freelancer", i>> : i \in 1..NumFreelancers}
Admins == {<<"admin", 1>>}
Users == Clients \cup Freelancers \cup Admins
Anon == <<"none", 0>>
Callers == Users \cup {Anon}

\* req.user?.role
RoleOf(u) == u[1]

\* ------------------------------------------------------------- collections
\* The workflow runs on one project; the listing reads two.
ProjectIds == {1}
ListProjectIds == {1, 2}
ProposalIds == 1..MaxProposals
\* a request parameter that mongoose.Types.ObjectId.isValid refuses
BadId == 0
\* Project.freelancer of an unassigned project (schema default null)
NoOne == <<"null", 0>>
\* a string field the request does not carry
Absent == "absent"
\* a user-reference field the request body does not carry
AbsentRef == <<"absent", 0>>

ProjectStatusEnum == {"draft", "open", "in-progress", "completed", "cancelled", "dispute"}
ProposalStatusEnum == {"pending", "accepted", "rejected", "withdrawn"}
AdminAllowedStatus == {"open", "in_progress", "completed", "archived", "flagged"}

VARIABLES
  projects,   \* Project collection: [ProjectIds -> [client, status, freelancer, proposalCount]]
  proposals,  \* Proposal collection: [subset of ProposalIds -> [project, freelancer, status]]
  nextId,     \* the next Proposal _id; _ids grow with createdAt
  nOps,       \* requests served so far
  last,       \* the last request and its response
  inflight    \* the requests being served step by step: position and locals

vars == <<projects, proposals, nextId, nOps, last, inflight>>

\* The client that posted project p (createProject sets client to the caller).
OwnerOf(p) == <<"client", p>>

\* A Project document as Project.create leaves it: status 'open', no
\* freelancer, proposalCount 0.
NewProject(p) ==
  [client |-> OwnerOf(p), status |-> "open", freelancer |-> NoOne, proposalCount |-> 0]

\* A Proposal document as Proposal.create leaves it: status 'pending'.
NewProposal(p, f) == [project |-> p, freelancer |-> f, status |-> "pending"]

NoRequest == [op |-> "none", code |-> 0]

Init ==
  /\ projects = [p \in ProjectIds |-> NewProject(p)]
  /\ proposals = << >>
  /\ nextId = 1
  /\ nOps = 0
  /\ last = NoRequest
  /\ inflight = << >>

\* ------------------------------------------------------------ createProposal
\* DuplicateKey with the unique index missing: Proposal.create never fails.
DuplicateKey_NoIndex(props, p, f) == FALSE

\* The unique index {project, freelancer}: Proposal.create fails with code
\* 11000 when a document with the same pair exists.
DuplicateKey(props, p, f) ==
  \E i \in DOMAIN props : props[i].project = p /\ props[i].freelancer = f

\* IncrementCount that counts the proposal twice.
IncrementCount_Twice(proj) == [proj EXCEPT !.proposalCount = proj.proposalCount + 2]

\* proj.proposalCount = (proj.proposalCount || 0) + 1
IncrementCount(proj) == [proj EXCEPT !.proposalCount = proj.proposalCount + 1]

\* The response code of createProposal; body says whether coverLetter,
\* bidAmount and timeline pass the checks of lines 92-98.
CreateProposalCode(caller, p, bodyOk) ==
  IF caller = Anon THEN 401
  ELSE IF RoleOf(caller) # "freelancer" THEN 403
  ELSE IF p = BadId THEN 400
  ELSE IF ~bodyOk THEN 400
  ELSE IF p \notin DOMAIN projects THEN 404
  ELSE IF DuplicateKey(proposals, p, caller) THEN 409
  ELSE 201

createProposal(caller, p, bodyOk) ==
  LET code == CreateProposalCode(caller, p, bodyOk) IN
  /\ nOps < MaxOps
  /\ nextId <= MaxProposals
  /\ nOps' = nOps + 1
  /\ UNCHANGED inflight
  /\ last' = [op |-> "createProposal", code |-> code, caller |-> caller, project |-> p,
              bodyOk |-> bodyOk,
              id |-> IF code = 201 THEN nextId ELSE BadId,
              hadProposal |-> \E i \in DOMAIN proposals :
                                proposals[i].project = p /\ proposals[i].freelancer = caller,
              propsBefore |-> proposals,
              countBefore |-> IF p \in DOMAIN projects THEN projects[p].proposalCount ELSE 0]
  /\ IF code = 201
       THEN /\ proposals' = (nextId :> NewProposal(p, caller)) @@ proposals
            /\ projects' = [projects EXCEPT ![p] = IncrementCount(@)]
            /\ nextId' = nextId + 1
       ELSE UNCHANGED <<proposals, projects, nextId>>

\* ------------------------------------------------------ updateProposalStatus
\* AssignOnAccept that leaves an already assigned project as it is.
AssignOnAccept_KeepAssigned(proj, prop) ==
  IF proj.freelancer = NoOne
    THEN [proj EXCEPT !.freelancer = prop.freelancer, !.status = "in-progress"]
    ELSE proj

\* status === 'accepted': project.freelancer = proposal.freelancer and
\* project.status = 'in-progress', whatever the project held before.
AssignOnAccept(proj, prop) ==
  [proj EXCEPT !.freelancer = prop.freelancer, !.status = "in-progress"]

\* ShouldRevert without the comparison of the assigned freelancer.
ShouldRevert_AnyFreelancer(status, prevStatus, proj, prop) ==
  /\ status = "rejected"
  /\ prevStatus = "accepted"
  /\ proj.freelancer # NoOne

\* The guard of the reversal: the new status is 'rejected', the previous one
\* was 'accepted', and the project's assigned freelancer is this proposal's.
ShouldRevert(status, prevStatus, proj, prop) ==
  /\ status = "rejected"
  /\ prevStatus = "accepted"
  /\ proj.freelancer # NoOne
  /\ proj.freelancer = prop.freelancer

\* RevertToOpen that clears the freelancer and forgets the status.
RevertToOpen_KeepStatus(proj) == [proj EXCEPT !.freelancer = NoOne]

\* project.freelancer = null; project.status = 'open'
RevertToOpen(proj) == [proj EXCEPT !.freelancer = NoOne, !.status = "open"]

\* ProjectAfterStatus without the reversal.
ProjectAfterStatus_NoRevert(proj, prop, status, prevStatus) ==
  IF status = "accepted" THEN AssignOnAccept(proj, prop) ELSE proj

\* The project document after lines 328-352.
ProjectAfterStatus(proj, prop, status, prevStatus) ==
  IF status = "accepted" THEN AssignOnAccept(proj, prop)
  ELSE IF ShouldRevert(status, prevStatus, proj, prop) THEN RevertToOpen(proj)
  ELSE proj

\* proposal.status = status (line 321): no check of the current status.
ProposalAfterStatus(prop, status) == [prop EXCEPT !.status = status]

\* IsClientOwner without the comparison: every client owns every project.
IsClientOwner_AnyClient(caller, prop) == TRUE

\* String(proposal.project.client) === String(userId)
IsClientOwner(caller, prop) == projects[prop.project].client = caller

UpdateProposalStatusCode(caller, id, status) ==
  IF caller = Anon THEN 401
  ELSE IF RoleOf(caller) # "client" /\ RoleOf(caller) # "admin" THEN 403
  ELSE IF id = BadId THEN 400
  ELSE IF status \notin {"accepted", "rejected"} THEN 400
  ELSE IF id \notin DOMAIN proposals THEN 404
  ELSE IF RoleOf(caller) # "admin" /\ ~IsClientOwner(caller, proposals[id]) THEN 403
  ELSE 200

\* The revertedToOpen field of the client notification (lines 375-376).
RevertedToOpen(status, prevStatus) ==
  status = "rejected" /\ prevStatus = "accepted"

updateProposalStatus(caller, id, status) ==
  LET code == UpdateProposalStatusCode(caller, id, status)
      found == id \in DOMAIN proposals
      prop == proposals[id]
      prevStatus == prop.status
  IN
  /\ nOps < MaxOps
  /\ nOps' = nOps + 1
  /\ UNCHANGED inflight
  /\ UNCHANGED nextId
  /\ last' = [op |-> "updateProposalStatus", code |-> code, caller |-> caller, id |-> id,
              status |-> status,
              prevStatus |-> IF found THEN prevStatus ELSE Absent,
              project |-> IF found THEN prop.project ELSE BadId,
              projBefore |-> IF found THEN projects[prop.project] ELSE NewProject(1),
              revertedToOpen |-> found /\ RevertedToOpen(status, prevStatus)]
  /\ IF code = 200
       THEN /\ proposals' = [proposals EXCEPT ![id] = ProposalAfterStatus(prop, status)]
            /\ projects' = [projects EXCEPT ![prop.project] =
                              ProjectAfterStatus(@, prop, status, prevStatus)]
       ELSE UNCHANGED <<proposals, projects>>

\* ---------------------------------------------------------- withdrawProposal
\* IsOwnProposal without the comparison: every freelancer may withdraw.
IsOwnProposal_AnyFreelancer(caller, prop) == TRUE

\* String(proposal.freelancer) === String(userId) (line 409)
IsOwnProposal(caller, prop) == prop.freelancer = caller

WithdrawProposalCode(caller, id) ==
  IF caller = Anon THEN 401
  ELSE IF RoleOf(caller) # "freelancer" /\ RoleOf(caller) # "admin" THEN 403
  ELSE IF id = BadId THEN 400
  ELSE IF id \notin DOMAIN proposals THEN 404
  ELSE IF RoleOf(caller) # "admin" /\ ~IsOwnProposal(caller, proposals[id]) THEN 403
  ELSE 200

\* proposal.status = 'withdrawn'; proposal.save(): the only write of the handler.
WithdrawProposals(props, id) == [props EXCEPT ![id].status = "withdrawn"]

\* WithdrawProjects that reverts the project as the reject-after-accept path does.
WithdrawProjects_Reopen(projs, prop) ==
  IF prop.status = "accepted" /\ projs[prop.project].freelancer = prop.freelancer
    THEN [projs EXCEPT ![prop.project] = [@ EXCEPT !.freelancer = NoOne, !.status = "open"]]
    ELSE projs

\* withdrawProposal loads and saves no Project document.
WithdrawProjects(projs, prop) == projs

withdrawProposal(caller, id) ==
  LET code == WithdrawProposalCode(caller, id)
      found == id \in DOMAIN proposals
  IN
  /\ nOps < MaxOps
  /\ nOps' = nOps + 1
  /\ UNCHANGED inflight
  /\ UNCHANGED nextId
  /\ last' = [op |-> "withdrawProposal", code |-> code, caller |-> caller, id |-> id,
              prevStatus |-> IF found THEN proposals[id].status ELSE Absent,
              project |-> IF found THEN proposals[id].project ELSE BadId,
              projBefore |-> IF found THEN projects[proposals[id].project] ELSE NewProject(1)]
  /\ IF code = 200
       THEN /\ proposals' = WithdrawProposals(proposals, id)
            /\ projects' = WithdrawProjects(projects, proposals[id])
       ELSE UNCHANGED <<proposals, projects>>

\* ------------------------------------------------------------ deleteProposal
DeleteProposalCode(caller, id) ==
  IF caller = Anon THEN 401
  ELSE IF id = BadId THEN 400
  ELSE IF id \notin DOMAIN proposals THEN 404
  ELSE IF proposals[id].freelancer # caller /\ RoleOf(caller) # "admin" THEN 403
  ELSE 200

\* proposal.deleteOne()
RemoveProposal(props, id) == [i \in DOMAIN props \ {id} |-> props[i]]

\* DeleteProjects that takes the deleted proposal out of the project: the
\* count goes down and an assignment to its freelancer is cleared.
DeleteProjects_Unassign(projs, prop) ==
  [projs EXCEPT ![prop.project] =
     IF prop.status = "accepted" /\ @.freelancer = prop.freelancer
       THEN [@ EXCEPT !.freelancer = NoOne, !.status = "open",
                      !.proposalCount = @ - 1]
       ELSE [@ EXCEPT !.proposalCount = @ - 1]]

\* deleteProposal loads and saves no Project document.
DeleteProjects(projs, prop) == projs

deleteProposal(caller, id) ==
  LET code == DeleteProposalCode(caller, id)
      found == id \in DOMAIN proposals
  IN
  /\ nOps < MaxOps
  /\ nOps' = nOps + 1
  /\ UNCHANGED inflight
  /\ UNCHANGED nextId
  /\ last' = [op |-> "deleteProposal", code |-> code, caller |-> caller, id |-> id,
              prevStatus |-> IF found THEN proposals[id].status ELSE Absent,
              freelancer |-> IF found THEN proposals[id].freelancer ELSE NoOne,
              project |-> IF found THEN proposals[id].project ELSE BadId,
              projBefore |-> IF found THEN projects[proposals[id].project] ELSE NewProject(1)]
  /\ IF code = 200
       THEN /\ proposals' = RemoveProposal(proposals, id)
            /\ projects' = DeleteProjects(projects, proposals[id])
       ELSE UNCHANGED <<proposals, projects>>

\* ------------------------------------------------------------- updateProject
\* The fields of the request body the model follows. The route's validator
\* chain is never read (no validationResult), so any body reaches the
\* controller; Object.assign copies status and freelancer when present.

\* Object.assign(project, update)
AssignBody(proj, body) ==
  [proj EXCEPT
     !.status = IF body.status = Absent THEN @ ELSE body.status,
     !.freelancer = IF body.freelancer = AbsentRef THEN @ ELSE body.freelancer]

\* project.save() validates the modified status against the schema enum; the
\* ValidationError carries no status, so handleError answers 500.
UpdateProjectCode(caller, p, body) ==
  IF caller = Anon THEN 401
  ELSE IF p = BadId THEN 400
  ELSE IF p \notin DOMAIN projects THEN 404
  ELSE IF projects[p].client # caller /\ RoleOf(caller) # "admin" THEN 403
  ELSE IF body.status # Absent /\ body.status \notin ProjectStatusEnum THEN 500
  ELSE 200

updateProject(caller, p, body) ==
  LET code == UpdateProjectCode(caller, p, body) IN
  /\ nOps < MaxOps
  /\ nOps' = nOps + 1
  /\ UNCHANGED inflight
  /\ UNCHANGED <<nextId, proposals>>
  /\ last' = [op |-> "updateProject", code |-> code, caller |-> caller, project |-> p,
              body |-> body]
  /\ projects' = IF code = 200 THEN [projects EXCEPT ![p] = AssignBody(@, body)]
                 ELSE projects

\* ---------------------------------------------------------- setProjectStatus
\* router.use(authenticate, authorize("admin")) in front of every admin route.
AdminGuardCode(caller) ==
  IF caller = Anon THEN 401
  ELSE IF RoleOf(caller) # "admin" THEN 403
  ELSE 200

\* Project.findByIdAndUpdate(id, { status }, { new: true }): no runValidators,
\* so the status is stored as given, in the schema enum or not.
SetStatus(proj, status) == [proj EXCEPT !.status = status]

\* The response code of the controller, once the router let the request in.
SetProjectStatusBody(p, status) ==
  IF status \notin AdminAllowedStatus THEN 400
  ELSE IF p = BadId THEN 500
  ELSE IF p \notin DOMAIN projects THEN 404
  ELSE 200

SetProjectStatusCode(caller, p, status) ==
  IF AdminGuardCode(caller) # 200 THEN AdminGuardCode(caller)
  ELSE SetProjectStatusBody(p, status)

setProjectStatus(caller, p, status) ==
  LET code == SetProjectStatusCode(caller, p, status) IN
  /\ nOps < MaxOps
  /\ nOps' = nOps + 1
  /\ UNCHANGED inflight
  /\ UNCHANGED <<nextId, proposals>>
  /\ last' = [op |-> "setProjectStatus", code |-> code, caller |-> caller, project |-> p,
              status |-> status]
  /\ projects' = IF code = 200 THEN [projects EXCEPT ![p] = SetStatus(@, status)]
                 ELSE projects

\* -------------------------------------------------------------- getProposals
DefaultPage == 1
DefaultLimit == 20
MaxLimit == 100

\* A numeric query parameter is << >> when absent and <<n>> when it reads as
\* the number n.  Number(v) || d: NaN (absent) and 0 are falsy.
NumberOr(q, d) == IF q = << >> THEN d ELSE IF q[1] = 0 THEN d ELSE q[1]

Max(a, b) == IF a >= b THEN a ELSE b
Min(a, b) == IF a <= b THEN a ELSE b

\* BuildPagination that skips the requested page too.
BuildPagination_SkipPage(page, limit) ==
  LET pg == Max(1, NumberOr(page, DefaultPage))
      lim == Min(MaxLimit, Max(1, NumberOr(limit, DefaultLimit)))
  IN [page |-> pg, limit |-> lim, skip |-> pg * lim]

\* buildPagination
BuildPagination(page, limit) ==
  LET pg == Max(1, NumberOr(page, DefaultPage))
      lim == Min(MaxLimit, Max(1, NumberOr(limit, DefaultLimit)))
  IN [page |-> pg, limit |-> lim, skip |-> (pg - 1) * lim]

\* The project query parameter is << >> when absent and <<p>> otherwise.
\* project && isValidId(project)
HasProjectFilter(project) == project # << >> /\ project[1] # BadId

\* canActAsClientOnProject
CanActAsClientOnProject(caller, p) ==
  /\ p # BadId
  /\ p \in DOMAIN projects
  /\ projects[p].client = caller

\* MyProjects without the client condition: every project.
MyProjects_Everyones(caller) == DOMAIN projects

\* Project.find({ client: userId }): the projects the caller owns.
MyProjects(caller) == {p \in DOMAIN projects : projects[p].client = caller}

\* FreelancerScope without the restriction to the caller.
FreelancerScope_Everyone(caller) == Freelancers

\* filter.freelancer = userId: the freelancers whose proposals a caller who is
\* neither admin nor client may match.
FreelancerScope(caller) == {caller}

\* One key of a query filter: absent from the filter (AnyValue), or the values a
\* matching document's field may take (Only).
AnyValue == [any |-> TRUE, vals |-> {}]
Only(S) == [any |-> FALSE, vals |-> S]
InKey(v, key) == key.any \/ v \in key.vals

\* The filter getProposals builds for the caller's role (lines 150-172).
ProposalFilter(caller, project, status) ==
  LET byStatus == IF status = Absent THEN AnyValue ELSE Only({status})
      byProject == IF HasProjectFilter(project) THEN Only({project[1]}) ELSE AnyValue
  IN
  IF RoleOf(caller) = "admin"
    THEN [project |-> byProject, freelancer |-> AnyValue, status |-> byStatus]
  ELSE IF RoleOf(caller) = "client"
    THEN [project |-> IF HasProjectFilter(project) THEN Only({project[1]})
                      ELSE Only(MyProjects(caller)),
          freelancer |-> AnyValue, status |-> byStatus]
  ELSE [project |-> byProject, freelancer |-> Only(FreelancerScope(caller)),
        status |-> byStatus]

\* Proposal.find(filter) / Proposal.countDocuments(filter)
Matching(filter) ==
  {i \in DOMAIN proposals :
     /\ InKey(proposals[i].project, filter.project)
     /\ InKey(proposals[i].freelancer, filter.freelancer)
     /\ InKey(proposals[i].status, filter.status)}

\* The ids of S in ascending order (createdAt grows with the _id).
RECURSIVE Ascending(_)
Ascending(S) ==
  IF S = {} THEN << >>
  ELSE LET m == CHOOSE x \in S : \A y \in S : x <= y
       IN <<m>> \o Ascending(S \ {m})

Reverse(s) == [i \in 1..Len(s) |-> s[Len(s) + 1 - i]]

\* .sort(sortBy) with sortBy = sort || '-createdAt'
SortBy(S, sort) ==
  IF sort = "createdAt" THEN Ascending(S) ELSE Reverse(Ascending(S))

\* .skip(skip).limit(limit)
SkipLimit(s, skip, limit) ==
  IF skip >= Len(s) THEN << >>
  ELSE SubSeq(s, skip + 1, Min(Len(s), skip + limit))

\* Math.ceil(total / limit)
CeilDiv(a, b) == (a + b - 1) \div b

GetProposalsCode(caller, project) ==
  IF caller = Anon THEN 401
  ELSE IF /\ RoleOf(caller) = "client"
          /\ HasProjectFilter(project)
          /\ ~CanActAsClientOnProject(caller, project[1]) THEN 403
  ELSE 200

getProposals(caller, project, status, page, limit, sort) ==
  LET code == GetProposalsCode(caller, project)
      pg == BuildPagination(page, limit)
      found == IF code = 200 THEN Matching(ProposalFilter(caller, project, status)) ELSE {}
  IN
  /\ nOps = 0
  /\ nOps' = nOps + 1
  /\ UNCHANGED inflight
  /\ UNCHANGED <<projects, proposals, nextId>>
  /\ last' = [op |-> "getProposals", code |-> code, caller |-> caller,
              project |-> project, status |-> status, sort |-> sort,
              reqPage |-> page, reqLimit |-> limit,
              page |-> pg.page, limit |-> pg.limit,
              items |-> SkipLimit(SortBy(found, sort), pg.skip, pg.limit),
              matched |-> found,
              total |-> Cardinality(found),
              totalPages |-> CeilDiv(Cardinality(found), pg.limit)]

\* ----------------------------------------------------------- getProposalById
\* CanSeeProposal without the ownership conditions.
CanSeeProposal_AnyUser(caller, prop) == TRUE

\* role === 'admin' || isOwner || isClient (lines 221-231)
CanSeeProposal(caller, prop) ==
  \/ RoleOf(caller) = "admin"
  \/ prop.freelancer = caller
  \/ CanActAsClientOnProject(caller, prop.project)

GetProposalByIdCode(caller, id) ==
  IF caller = Anon THEN 401
  ELSE IF id = BadId THEN 400
  ELSE IF id \notin DOMAIN proposals THEN 404
  ELSE IF ~CanSeeProposal(caller, proposals[id]) THEN 403
  ELSE 200

\* The response carries the proposal (data) only with code 200.
getProposalById(caller, id) ==
  LET code == GetProposalByIdCode(caller, id) IN
  /\ nOps = 0
  /\ nOps' = nOps + 1
  /\ UNCHANGED inflight
  /\ UNCHANGED <<projects, proposals, nextId>>
  /\ last' = [op |-> "getProposalById", code |-> code, caller |-> caller,
              id |-> id, data |-> IF code = 200 THEN {id} ELSE {}]

\* --------------------------------------------------- getProjects, getProject
\* exports.authenticate: a request without a valid token is answered 401
\* before the handler runs.
Authenticate(caller) == IF caller = Anon THEN 401 ELSE 200

\* req.user of a listing: GET /browse mounts getProjects without
\* authenticate, so req.user is never set there; GET / mounts it behind
\* authenticate.
ListingUser(caller, route) == IF route = "browse" THEN Anon ELSE caller

\* filter.status of getProjects (lines 73-88): the requested status when one
\* is given; otherwise 'open' for an unauthenticated request and for an
\* authenticated one with neither mine nor another filter.
ProjectStatusKey(user, category, status, mine) ==
  IF status # Absent THEN Only({status})
  ELSE IF mine # Absent /\ user # Anon THEN AnyValue
  ELSE IF user = Anon THEN Only({"open"})
  ELSE IF category = Absent THEN Only({"open"})
  ELSE AnyValue

\* The filter getProjects builds (lines 55-88).
ProjectFilter(user, category, status, mine) ==
  [category |-> IF category # Absent THEN Only({category}) ELSE AnyValue,
   status |-> ProjectStatusKey(user, category, status, mine),
   client |-> IF user # Anon /\ mine = "client" THEN Only({user}) ELSE AnyValue,
   freelancer |-> IF user # Anon /\ mine = "freelancer" THEN Only({user}) ELSE AnyValue]

\* Project.find(filter)
MatchingProjects(filter) ==
  {p \in DOMAIN projects :
     /\ InKey(projects[p].category, filter.category)
     /\ InKey(projects[p].status, filter.status)
     /\ InKey(projects[p].client, filter.client)
     /\ InKey(projects[p].freelancer, filter.freelancer)}

getProjects(caller, route, category, status, mine) ==
  LET user == ListingUser(caller, route)
      code == IF route = "browse" THEN 200 ELSE Authenticate(caller)
  IN
  /\ nOps = 0
  /\ nOps' = nOps + 1
  /\ UNCHANGED inflight
  /\ UNCHANGED <<projects, proposals, nextId>>
  /\ last' = [op |-> "getProjects", code |-> code, caller |-> caller, user |-> user,
              route |-> route, category |-> category, status |-> status, mine |-> mine,
              items |-> IF code = 200
                          THEN MatchingProjects(ProjectFilter(user, category, status, mine))
                          ELSE {}]

\* The access rule of getProject (lines 163-177) for req.user = user.
CanSeeProject(user, proj) ==
  IF user = Anon THEN proj.status = "open"
  ELSE \/ RoleOf(user) = "admin"
       \/ proj.client = user
       \/ proj.freelancer = user
       \/ proj.status = "open"

GetProjectCode(user, id) ==
  IF id = BadId THEN 400
  ELSE IF id \notin DOMAIN projects THEN 404
  ELSE IF ~CanSeeProject(user, projects[id]) THEN 403
  ELSE 200

\* GET /:id: authenticate, then getProject.
getProject(caller, id) ==
  LET code == IF Authenticate(caller) # 200 THEN Authenticate(caller)
              ELSE GetProjectCode(caller, id)
  IN
  /\ nOps = 0
  /\ nOps' = nOps + 1
  /\ UNCHANGED inflight
  /\ UNCHANGED <<projects, proposals, nextId>>
  /\ last' = [op |-> "getProject", code |-> code, caller |-> caller, id |-> id,
              data |-> IF code = 200 THEN {id} ELSE {}]

\* ------------------------------------------------------------ specification
\* Request bodies of updateProject: a status in the schema enum, one outside
\* it, and a cleared or a set freelancer reference.
UpdateBodies ==
  { [status |-> "open", freelancer |-> AbsentRef],
    [status |-> "completed", freelancer |-> AbsentRef],
    [status |-> "archived", freelancer |-> AbsentRef],
    [status |-> Absent, freelancer |-> NoOne],
    [status |-> Absent, freelancer |-> <<"freelancer", 1>>] }

\* Request bodies of setProjectStatus: statuses of the allowed list, and the
\* schema's own 'in-progress', which the list leaves out.
SetStatusInputs == {"open", "in_progress", "in-progress"}

\* Callers of the two project-writing requests: the owner, another client,
\* an admin, and a request without a token.
ProjectCallers == Clients \cup Admins \cup {Anon}

Next ==
  \/ \E caller \in Callers, p \in ProjectIds \cup {BadId}, bodyOk \in BOOLEAN :
       createProposal(caller, p, bodyOk)
  \/ \E caller \in Callers, id \in ProposalIds,
        status \in {"accepted", "rejected", "withdrawn"} :
       updateProposalStatus(caller, id, status)
  \/ \E caller \in Callers, id \in ProposalIds : withdrawProposal(caller, id)
  \/ \E caller \in Callers, id \in ProposalIds : deleteProposal(caller, id)
  \/ \E caller \in ProjectCallers, p \in ProjectIds, body \in UpdateBodies :
       updateProject(caller, p, body)
  \/ \E caller \in ProjectCallers, p \in ProjectIds, status \in SetStatusInputs :
       setProjectStatus(caller, p, status)

Spec == Init /\ [][Next]_vars

\* The proposal operations alone (submit, accept and reject, withdraw,
\* delete), from the project with no assigned freelancer.
ProposalNext ==
  \/ \E caller \in Callers, p \in ProjectIds \cup {BadId}, bodyOk \in BOOLEAN :
       createProposal(caller, p, bodyOk)
  \/ \E caller \in Callers, id \in ProposalIds, status \in {"accepted", "rejected"} :
       updateProposalStatus(caller, id, status)
  \/ \E caller \in Callers, id \in ProposalIds : withdrawProposal(caller, id)
  \/ \E caller \in Callers, id \in ProposalIds : deleteProposal(caller, id)

SpecProposalOps == Init /\ [][ProposalNext]_vars

\* ------------------------------------------------- the listing specification
\* The listing is a read: it is called once from every collection content of
\* the bounded shape below, each one a state the workflow can leave behind
\* (proposals 1..n in creation order, no two of one project and freelancer).
ListProposalDocs ==
  [project : ListProjectIds, freelancer : Freelancers, status : {"pending", "accepted"}]

UniquePairs(props) ==
  \A i, j \in DOMAIN props :
    (props[i].project = props[j].project /\ props[i].freelancer = props[j].freelancer)
      => i = j

ListInit ==
  /\ \E owner \in [ListProjectIds -> Clients] :
       /\ owner[1] = OwnerOf(1)
       /\ projects = [p \in ListProjectIds |-> [NewProject(p) EXCEPT !.client = owner[p]]]
  /\ \E n \in 0..ListMaxProposals :
       /\ proposals \in {props \in [1..n -> ListProposalDocs] : UniquePairs(props)}
       /\ nextId = n + 1
  /\ nOps = 0
  /\ last = NoRequest
  /\ inflight = << >>

ProjectFilterInputs == {<< >>, <<BadId>>} \cup {<<p>> : p \in ListProjectIds}
StatusFilterInputs == {Absent, "accepted"}
PageInputs == {<< >>, <<2>>}
LimitInputs == {<< >>, <<1>>}
SortInputs == {Absent, "createdAt"}

\* The order of the page is the subject of SpecPage; here the default sort.
ListNext ==
  \/ \E caller \in Callers, project \in ProjectFilterInputs, status \in StatusFilterInputs,
        page \in PageInputs, limit \in LimitInputs :
       getProposals(caller, project, status, page, limit, Absent)
  \/ \E caller \in Callers, id \in 0..ListMaxProposals + 1 :
       getProposalById(caller, id)

SpecList == ListInit /\ [][ListNext]_vars

\* ---------------------------------------------- the pagination specification
\* One freelancer has a proposal on each of the first n projects of one
\* client; the listing is called once with every page and limit below, by
\* callers who all match the n proposals.
PageInit ==
  /\ projects = [p \in 1..PageMaxProposals |-> [NewProject(p) EXCEPT !.client = OwnerOf(1)]]
  /\ \E n \in 0..PageMaxProposals :
       /\ proposals = [i \in 1..n |-> NewProposal(i, <<"freelancer", 1>>)]
       /\ nextId = n + 1
  /\ nOps = 0
  /\ last = NoRequest
  /\ inflight = << >>

PageNext ==
  \E caller \in {<<"admin", 1>>, <<"client", 1>>, <<"freelancer", 1>>},
     page \in {<< >>} \cup {<<n>> : n \in -1..3},
     limit \in {<< >>} \cup {<<n>> : n \in {-1, 0, 1, 2, 10, MaxLimit, MaxLimit + 1}},
     sort \in SortInputs :
    getProposals(caller, << >>, Absent, page, limit, sort)

SpecPage == PageInit /\ [][PageNext]_vars

\* ------------------------------------------------ the project specification
\* The project reads are called once on every content of two projects: any
\* owner, open and unassigned or started with a freelancer, in one of two
\* categories.
ProjectDocs ==
  {d \in [client : Clients, status : {"open", "in-progress", "completed"},
          freelancer : Freelancers \cup {NoOne}, proposalCount : {0},
          category : {"web-development", "other"}] :
     (d.status = "open") = (d.freelancer = NoOne)}

ProjInit ==
  /\ projects \in [ListProjectIds -> ProjectDocs]
  /\ proposals = << >>
  /\ nextId = 1
  /\ nOps = 0
  /\ last = NoRequest
  /\ inflight = << >>

ProjNext ==
  \/ \E caller \in Callers, route \in {"browse", "list"},
        category \in {Absent, "web-development"},
        status \in {Absent, "open", "completed"},
        mine \in {Absent, "client", "freelancer"} :
       getProjects(caller, route, category, status, mine)
  \/ \E caller \in Callers, id \in {BadId} \cup ListProjectIds \cup {3} :
       getProject(caller, id)

SpecProjects == ProjInit /\ [][ProjNext]_vars

\* ------------------------------------------------- the invite specification
\* inviteFreelancer and updateProject on one project whose document carries
\* the invitedFreelancers list (the invited users, in the order of the
\* array).
\* A freelancerId that is a valid ObjectId of no user.
GhostUser == <<"freelancer", 0>>

\* (project.invitedFreelancers || []).some(i => String(i.user) === String(freelancerId))
AlreadyInvited(proj, target) ==
  \E k \in 1..Len(proj.invitedFreelancers) : proj.invitedFreelancers[k] = target

\* noteOk: the note is within the schema's maxlength; otherwise project.save()
\* fails validation and handleError answers 500.
InviteFreelancerCode(caller, p, target, noteOk) ==
  IF caller = Anon THEN 401
  ELSE IF p = BadId \/ target = AbsentRef THEN 400
  ELSE IF p \notin DOMAIN projects THEN 404
  ELSE IF projects[p].client # caller /\ RoleOf(caller) # "admin" THEN 403
  ELSE IF projects[p].status # "open" THEN 400
  ELSE IF target \notin Users THEN 404
  ELSE IF RoleOf(target) # "freelancer" THEN 400
  ELSE IF AlreadyInvited(projects[p], target) THEN 409
  ELSE IF ~noteOk THEN 500
  ELSE 201

inviteFreelancer(caller, p, target, noteOk) ==
  LET code == InviteFreelancerCode(caller, p, target, noteOk) IN
  /\ nOps < MaxOps
  /\ nOps' = nOps + 1
  /\ UNCHANGED <<proposals, nextId, inflight>>
  /\ last' = [op |-> "inviteFreelancer", code |-> code, caller |-> caller,
              project |-> p, target |-> target,
              projBefore |-> IF p \in DOMAIN projects THEN projects[p] ELSE NewProject(1)]
  /\ projects' = IF code = 201
                   THEN [projects EXCEPT ![p].invitedFreelancers = Append(@, target)]
                   ELSE projects

\* Object.assign(project, update) with a body that may carry
\* invitedFreelancers too.
AssignInvites(proj, body) ==
  [AssignBody(proj, body) EXCEPT
     !.invitedFreelancers = IF body.setInvites THEN body.invitedFreelancers ELSE @]

updateProjectWithInvites(caller, p, body) ==
  LET code == UpdateProjectCode(caller, p, body) IN
  /\ nOps < MaxOps
  /\ nOps' = nOps + 1
  /\ UNCHANGED <<proposals, nextId, inflight>>
  /\ last' = [op |-> "updateProject", code |-> code, caller |-> caller, project |-> p,
              body |-> body]
  /\ projects' = IF code = 200 THEN [projects EXCEPT ![p] = AssignInvites(@, body)]
                 ELSE projects

InviteInit ==
  /\ projects = [p \in ProjectIds |-> [invitedFreelancers |-> << >>] @@ NewProject(p)]
  /\ proposals = << >>
  /\ nextId = 1
  /\ nOps = 0
  /\ last = NoRequest
  /\ inflight = << >>

\* Request bodies of updateProject: a status, or an invitedFreelancers array.
InviteUpdateBodies ==
  { [status |-> st, freelancer |-> AbsentRef, setInvites |-> FALSE,
     invitedFreelancers |-> << >>] : st \in {"open", "completed"} }
  \cup
  { [status |-> Absent, freelancer |-> AbsentRef, setInvites |-> TRUE,
     invitedFreelancers |-> l] :
       l \in {<< >>, << <<"freelancer", 1>>, <<"freelancer", 1>> >>} }

InviteNext ==
  \/ \E caller \in Callers, p \in ProjectIds,
        target \in Freelancers \cup {<<"client", 1>>, GhostUser, AbsentRef},
        noteOk \in BOOLEAN :
       inviteFreelancer(caller, p, target, noteOk)
  \/ \E caller \in Callers, p \in ProjectIds, body \in InviteUpdateBodies :
       updateProjectWithInvites(caller, p, body)

SpecInvite == InviteInit /\ [][InviteNext]_vars

\* -------------------------------------------------- the admin specification
\* The admin router exists in two versions: routes/admin.js puts
\* authenticate and authorize("admin") in front of every route; the version
\* of part_000 (lines 27-86) puts requireAdmin in front of each route.
\* hasHeader says whether the request carries an Authorization header; a
\* request of an authenticated user always does.
AdminRouterVersions == {"authorize", "requireAdmin"}

AdminRoutes ==
  {"updateUserRole", "updateUserStatus", "setProjectStatus", "financeSummary",
   "updateSettings", "systemHealth"}

\* requireAdmin: 401 without an Authorization header, next() with any; the
\* check of req.user.role is commented out.
RequireAdminCode(hasHeader) == IF ~hasHeader THEN 401 ELSE 200

AdminRouterCode(version, caller, hasHeader) ==
  IF version = "authorize" THEN AdminGuardCode(caller) ELSE RequireAdminCode(hasHeader)

\* One request to the admin namespace; reached says whether the controller
\* of the route ran.  Of the controllers only setProjectStatus writes a
\* collection of the model.
adminRequest(version, caller, hasHeader, route, p, status) ==
  LET guard == AdminRouterCode(version, caller, hasHeader)
      reached == guard = 200
      code == IF ~reached THEN guard
              ELSE IF route = "setProjectStatus" THEN SetProjectStatusBody(p, status)
              ELSE 200
  IN
  /\ caller # Anon => hasHeader
  /\ nOps < MaxOps
  /\ nOps' = nOps + 1
  /\ UNCHANGED <<nextId, proposals, inflight>>
  /\ last' = [op |-> "admin", route |-> route, version |-> version, caller |-> caller,
              hasHeader |-> hasHeader, code |-> code, reached |-> reached,
              project |-> p, status |-> status]
  /\ projects' = IF reached /\ route = "setProjectStatus" /\ code = 200
                   THEN [projects EXCEPT ![p] = SetStatus(@, status)]
                   ELSE projects

AdminNext ==
  \E version \in AdminRouterVersions, caller \in Callers, hasHeader \in BOOLEAN,
     route \in AdminRoutes, p \in ProjectIds, status \in SetStatusInputs :
    adminRequest(version, caller, hasHeader, route, p, status)

SpecAdmin == Init /\ [][AdminNext]_vars

\* ----------------------------------------------------- the fault specification
\* createProposal and updateProposalStatus as whole handlers, with one of
\* their non-blocking side effects failing: proj.save() of the counter
\* (lines 116-121) or the socket emit (lines 355-382), each in a try/catch of
\* its own; or with the project.save() of updateProposalStatus failing.

\* Swallowed that lets the failure reach the handler's catch.
Swallowed_Rethrown(code, fault) == IF fault # "none" THEN 500 ELSE code

\* The response code after a side effect in try { ... } catch: the failure is
\* logged or ignored, the code stays.
Swallowed(code, fault) == code

createProposalWithFault(caller, p, bodyOk, fault) ==
  LET created == CreateProposalCode(caller, p, bodyOk) = 201
      code == IF created THEN Swallowed(201, fault)
              ELSE CreateProposalCode(caller, p, bodyOk)
  IN
  /\ nOps < FaultMaxOps
  /\ nextId <= MaxProposals
  /\ nOps' = nOps + 1
  /\ UNCHANGED inflight
  /\ last' = [op |-> "createProposal", code |-> code, caller |-> caller, project |-> p,
              bodyOk |-> bodyOk, fault |-> fault,
              id |-> IF created THEN nextId ELSE BadId,
              hadProposal |-> DuplicateKey(proposals, p, caller),
              propsBefore |-> proposals,
              countBefore |-> IF p \in DOMAIN projects THEN projects[p].proposalCount ELSE 0]
  /\ IF created
       THEN /\ proposals' = (nextId :> NewProposal(p, caller)) @@ proposals
            /\ projects' = IF fault = "countSave" THEN projects
                           ELSE [projects EXCEPT ![p] = IncrementCount(@)]
            /\ nextId' = nextId + 1
       ELSE UNCHANGED <<proposals, projects, nextId>>

\* NoRollback that restores the stored proposal when the project save fails.
NoRollback_Undo(stored, written) == stored

\* The proposal after a failed project.save(): the catch of lines 385-387
\* only answers; the proposal saved at line 326 stays as written.
NoRollback(stored, written) == written

\* fault "emit" fails the socket emit; fault "projectSave" fails the
\* project.save() of line 334 or 349 when the handler gets there: the
\* error has no status, so handleControllerError answers 500.
updateProposalStatusWithFault(caller, id, status, fault) ==
  LET permitted == UpdateProposalStatusCode(caller, id, status) = 200
      found == id \in DOMAIN proposals
      prop == proposals[id]
      savesProject == \/ status = "accepted"
                      \/ ShouldRevert(status, prop.status, projects[prop.project], prop)
      failed == permitted /\ fault = "projectSave" /\ savesProject
      code == IF ~permitted THEN UpdateProposalStatusCode(caller, id, status)
              ELSE IF failed THEN 500
              ELSE Swallowed(200, IF fault = "emit" THEN fault ELSE "none")
  IN
  /\ nOps < FaultMaxOps
  /\ nOps' = nOps + 1
  /\ UNCHANGED <<nextId, inflight>>
  /\ last' = [op |-> "updateProposalStatus", code |-> code, caller |-> caller,
              id |-> id, status |-> status, fault |-> fault,
              prevStatus |-> IF found THEN prop.status ELSE Absent,
              project |-> IF found THEN prop.project ELSE BadId,
              projBefore |-> IF found THEN projects[prop.project] ELSE NewProject(1)]
  /\ IF permitted /\ failed
       THEN /\ proposals' = [proposals EXCEPT ![id] =
                               NoRollback(prop, ProposalAfterStatus(prop, status))]
            /\ UNCHANGED projects
     ELSE IF permitted
       THEN /\ proposals' = [proposals EXCEPT ![id] = ProposalAfterStatus(prop, status)]
            /\ projects' = [projects EXCEPT ![prop.project] =
                              ProjectAfterStatus(@, prop, status, prop.status)]
       ELSE UNCHANGED <<proposals, projects>>

FaultNext ==
  \/ \E caller \in Callers, p \in ListProjectIds \cup {BadId}, bodyOk \in BOOLEAN,
        fault \in {"none", "countSave"} :
       createProposalWithFault(caller, p, bodyOk, fault)
  \/ \E caller \in Callers, id \in ProposalIds, status \in {"accepted", "rejected"},
        fault \in {"none", "emit", "projectSave"} :
       updateProposalStatusWithFault(caller, id, status, fault)

SpecFault == Init /\ [][FaultNext]_vars

\* ------------------------------------------------ the concurrent specification
\* Two updateProposalStatus requests are served at once.  Every await of the
\* handler is a step of its own, and the steps of the two requests interleave
\* freely: load the proposal (lines 305-318), save it (326), load the
\* project (329 or 340), save it (334 or 349), respond (354-384).
Requests == {1, 2}

IdleRequest ==
  [pc |-> "idle", caller |-> Anon, id |-> BadId, status |-> Absent, code |-> 0,
   prevStatus |-> Absent, doc |-> NewProposal(1, NoOne),
   loaded |-> NewProject(1), edited |-> NewProject(1),
   startedAt |-> 0, savedAt |-> 0]

\* SaveModified that writes nothing when the stored document is no longer
\* the loaded one (a compare-and-swap).
SaveModified_CompareAndSwap(stored, loaded, edited) ==
  IF stored = loaded THEN edited ELSE stored

\* document.save(): the paths of the loaded document that were assigned a
\* new value are written; the other paths of the stored document stay.
SaveModified(stored, loaded, edited) ==
  [f \in DOMAIN stored |-> IF edited[f] # loaded[f] THEN edited[f] ELSE stored[f]]

\* The checks and Proposal.findById of lines 288-318.
LoadProposalStep(r, caller, id, status) ==
  LET code == UpdateProposalStatusCode(caller, id, status) IN
  /\ inflight[r].pc = "idle"
  /\ nOps' = nOps + 1
  /\ inflight' = [inflight EXCEPT ![r] =
       IF code = 200
         THEN [@ EXCEPT !.pc = "saveProposal", !.caller = caller, !.id = id,
                        !.status = status, !.prevStatus = proposals[id].status,
                        !.doc = proposals[id], !.startedAt = nOps + 1]
         ELSE [@ EXCEPT !.pc = "done", !.caller = caller, !.id = id,
                        !.status = status, !.code = code, !.startedAt = nOps + 1]]
  /\ UNCHANGED <<projects, proposals, nextId, last>>

\* proposal.status = status; proposal.save() (lines 321-326)
SaveProposalStep(r) ==
  LET req == inflight[r] IN
  /\ req.pc = "saveProposal"
  /\ nOps' = nOps + 1
  /\ proposals' = [proposals EXCEPT ![req.id] = ProposalAfterStatus(@, req.status)]
  /\ inflight' = [inflight EXCEPT ![r].pc =
       IF req.status = "accepted" \/ req.prevStatus = "accepted"
         THEN "loadProject" ELSE "respond"]
  /\ UNCHANGED <<projects, nextId, last>>

\* Project.findById and the assignments to the loaded document (lines
\* 329-333 and 340-348).
LoadProjectStep(r) ==
  LET req == inflight[r]
      loaded == projects[req.doc.project]
  IN
  /\ req.pc = "loadProject"
  /\ nOps' = nOps + 1
  /\ inflight' = [inflight EXCEPT ![r] =
       [@ EXCEPT !.loaded = loaded,
                 !.edited = ProjectAfterStatus(loaded, req.doc, req.status, req.prevStatus),
                 !.pc = IF \/ req.status = "accepted"
                           \/ ShouldRevert(req.status, req.prevStatus, loaded, req.doc)
                          THEN "saveProject" ELSE "respond"]]
  /\ UNCHANGED <<projects, proposals, nextId, last>>

\* project.save() (line 334 or 349); savedAt is the time of the request's
\* last save that wrote a path.
SaveProjectStep(r) ==
  LET req == inflight[r] IN
  /\ req.pc = "saveProject"
  /\ nOps' = nOps + 1
  /\ projects' = [projects EXCEPT ![req.doc.project] =
                    SaveModified(@, req.loaded, req.edited)]
  /\ inflight' = [inflight EXCEPT ![r].pc = "respond",
                                  ![r].savedAt = IF req.edited # req.loaded
                                                   THEN nOps + 1 ELSE @]
  /\ UNCHANGED <<proposals, nextId, last>>

\* The notifications and res.json (lines 354-384).
RespondStep(r) ==
  /\ inflight[r].pc = "respond"
  /\ nOps' = nOps + 1
  /\ inflight' = [inflight EXCEPT ![r].pc = "done", ![r].code = 200]
  /\ UNCHANGED <<projects, proposals, nextId, last>>

\* Project 1 holds a proposal of each freelancer; each is pending or was
\* accepted, and the project is assigned as the last accept left it.
ConcInit ==
  /\ \E s \in [1..NumFreelancers -> {"pending", "accepted"}] :
       /\ proposals = [i \in 1..NumFreelancers |->
                         [NewProposal(1, <<"freelancer", i>>) EXCEPT !.status = s[i]]]
       /\ \/ /\ \A i \in 1..NumFreelancers : s[i] = "pending"
             /\ projects = [p \in ProjectIds |->
                              [NewProject(p) EXCEPT !.proposalCount = NumFreelancers]]
          \/ \E i \in 1..NumFreelancers :
               /\ s[i] = "accepted"
               /\ projects = [p \in ProjectIds |->
                    [NewProject(p) EXCEPT !.proposalCount = NumFreelancers,
                                          !.freelancer = <<"freelancer", i>>,
                                          !.status = "in-progress"]]
  /\ nextId = NumFreelancers + 1
  /\ nOps = 0
  /\ last = NoRequest
  /\ inflight = [r \in Requests |-> IdleRequest]

ConcNext ==
  \/ \E r \in Requests, caller \in Clients, id \in 1..NumFreelancers,
        status \in {"accepted", "rejected"} :
       LoadProposalStep(r, caller, id, status)
  \/ \E r \in Requests : SaveProposalStep(r)
  \/ \E r \in Requests : LoadProjectStep(r)
  \/ \E r \in Requests : SaveProjectStep(r)
  \/ \E r \in Requests : RespondStep(r)

SpecConc == ConcInit /\ [][ConcNext]_vars

\* ------------------------------------------ the concurrent submit specification
\* Two createProposal requests are served at once, one await at a time: the
\* checks and Project.findById (lines 74-101), Proposal.create (lines
\* 103-112), and the save of the counter with the response (lines 115-126).
CreateLoadStep(r, caller, p, bodyOk) ==
  LET code == CreateProposalCode(caller, p, bodyOk)
      passed == code \in {201, 409}
  IN
  /\ inflight[r].pc = "idle"
  /\ nOps' = nOps + 1
  /\ inflight' = [inflight EXCEPT ![r] =
       [@ EXCEPT !.pc = IF passed THEN "create" ELSE "done",
                 !.caller = caller, !.code = IF passed THEN 0 ELSE code,
                 !.doc = NewProposal(p, caller),
                 !.loaded = IF passed THEN projects[p] ELSE @,
                 !.startedAt = nOps + 1]]
  /\ UNCHANGED <<projects, proposals, nextId, last>>

\* Proposal.create: the unique index refuses a second proposal of the pair.
CreateDocStep(r) ==
  LET req == inflight[r]
      duplicate == DuplicateKey(proposals, req.doc.project, req.caller)
  IN
  /\ req.pc = "create"
  /\ nOps' = nOps + 1
  /\ IF duplicate
       THEN /\ inflight' = [inflight EXCEPT ![r].pc = "done", ![r].code = 409]
            /\ UNCHANGED <<proposals, nextId>>
       ELSE /\ proposals' = (nextId :> req.doc) @@ proposals
            /\ nextId' = nextId + 1
            /\ inflight' = [inflight EXCEPT ![r].pc = "saveCount", ![r].id = nextId]
  /\ UNCHANGED <<projects, last>>

\* proj.proposalCount = (proj.proposalCount || 0) + 1; proj.save(), on the
\* document loaded in the first step; then the 201.
SaveCountStep(r) ==
  LET req == inflight[r] IN
  /\ req.pc = "saveCount"
  /\ nOps' = nOps + 1
  /\ projects' = [projects EXCEPT ![req.doc.project] =
                    SaveModified(@, req.loaded, IncrementCount(req.loaded))]
  /\ inflight' = [inflight EXCEPT ![r].pc = "done", ![r].code = 201,
                                  ![r].savedAt = nOps + 1]
  /\ UNCHANGED <<proposals, nextId, last>>

SubmitInit ==
  /\ projects = [p \in ProjectIds |-> NewProject(p)]
  /\ proposals = << >>
  /\ nextId = 1
  /\ nOps = 0
  /\ last = NoRequest
  /\ inflight = [r \in Requests |-> IdleRequest]

SubmitNext ==
  \/ \E r \in Requests, caller \in Freelancers \cup {<<"client", 1>>},
        p \in ProjectIds, bodyOk \in BOOLEAN :
       CreateLoadStep(r, caller, p, bodyOk)
  \/ \E r \in Requests : CreateDocStep(r)
  \/ \E r \in Requests : SaveCountStep(r)

SpecSubmit == SubmitInit /\ [][SubmitNext]_vars

\* =============================================================== properties

\* The proposal a request was about, as the collection holds it now.
LastProposal == proposals[last.id]
\* The project of that proposal, as the collection holds it now.
LastProject == projects[last.project]

StatusUpdated(status) ==
  /\ last.op = "updateProposalStatus"
  /\ last.code = 200
  /\ last.status = status

\* C1: every successful updateProposalStatus(P, accepted) leaves P's project
\* with freelancer = P.freelancer and status = 'in-progress', whatever P's
\* previous status and whatever the project held before.
C1_AcceptAssignsProject ==
  StatusUpdated("accepted") =>
    /\ LastProject.freelancer = LastProposal.freelancer
    /\ LastProject.status = "in-progress"

\* An accept of a proposal that was not pending, on a project that was
\* assigned to another freelancer.
C1_Witness ==
  /\ StatusUpdated("accepted")
  /\ last.caller \in Admins \cup {last.projBefore.client}
  /\ last.prevStatus # "pending"
  /\ last.projBefore.freelancer \notin {NoOne, LastProposal.freelancer}

\* C2: a successful updateProposalStatus(P, rejected) on a proposal that was
\* accepted, while the project's assigned freelancer is P.freelancer, ends
\* with the project's freelancer null and its status 'open'.
C2_RejectAcceptedReopens ==
  ( /\ StatusUpdated("rejected")
    /\ last.prevStatus = "accepted"
    /\ last.projBefore.freelancer = LastProposal.freelancer )
  => /\ LastProject.freelancer = NoOne
     /\ LastProject.status = "open"

C2_Witness ==
  /\ StatusUpdated("rejected")
  /\ last.prevStatus = "accepted"
  /\ last.projBefore.freelancer = LastProposal.freelancer
  /\ last.projBefore.status = "in-progress"

\* C3: a successful updateProposalStatus(P, rejected) on a proposal that was
\* accepted, while the project is assigned to a different freelancer, leaves
\* the project's freelancer and status as they were.
C3_RejectSupersededLeavesProject ==
  ( /\ StatusUpdated("rejected")
    /\ last.prevStatus = "accepted"
    /\ last.projBefore.freelancer \notin {NoOne, LastProposal.freelancer} )
  => /\ LastProject.freelancer = last.projBefore.freelancer
     /\ LastProject.status = last.projBefore.status

\* Accept F, accept F2, reject F: the project stays with F2, in-progress.
C3_Witness ==
  /\ StatusUpdated("rejected")
  /\ last.prevStatus = "accepted"
  /\ last.projBefore.freelancer \notin {NoOne, LastProposal.freelancer}
  /\ last.projBefore.status = "in-progress"
  /\ \E i \in DOMAIN proposals :
       /\ proposals[i].status = "accepted"
       /\ proposals[i].freelancer = LastProject.freelancer

\* C4: withdrawProposal never changes the status or the freelancer of the
\* proposal's project, whatever the proposal's status was.
C4_WithdrawLeavesProject ==
  (last.op = "withdrawProposal" /\ last.project # BadId) =>
    /\ LastProject.status = last.projBefore.status
    /\ LastProject.freelancer = last.projBefore.freelancer

\* A withdrawal of the accepted proposal of an assigned, in-progress project.
C4_Witness ==
  /\ last.op = "withdrawProposal"
  /\ last.code = 200
  /\ last.prevStatus = "accepted"
  /\ LastProposal.status = "withdrawn"
  /\ LastProject.status = "in-progress"
  /\ LastProject.freelancer = LastProposal.freelancer

\* C5: at most one proposal per (project, freelancer) pair exists, and a
\* createProposal by a freelancer who already has a proposal on the project
\* answers 409 and creates nothing.
C5_OneProposalPerPair ==
  /\ \A i, j \in DOMAIN proposals :
       ( /\ proposals[i].project = proposals[j].project
         /\ proposals[i].freelancer = proposals[j].freelancer ) => i = j
  /\ (last.op = "createProposal" /\ last.hadProposal /\ last.bodyOk) =>
       /\ last.code = 409
       /\ proposals = last.propsBefore

C5_Witness ==
  /\ last.op = "createProposal"
  /\ last.hadProposal
  /\ last.bodyOk
  /\ last.code = 409

\* C6: a proposal never leaves withdrawn: a successful updateProposalStatus
\* or withdrawProposal on a withdrawn proposal leaves it withdrawn.
C6_WithdrawnIsFinal ==
  ( /\ last.op \in {"updateProposalStatus", "withdrawProposal"}
    /\ last.code = 200
    /\ last.prevStatus = "withdrawn" )
  => LastProposal.status = "withdrawn"

\* C7: a proposal never leaves rejected: a successful updateProposalStatus or
\* withdrawProposal on a rejected proposal leaves it rejected.
C7_RejectedIsFinal ==
  ( /\ last.op \in {"updateProposalStatus", "withdrawProposal"}
    /\ last.code = 200
    /\ last.prevStatus = "rejected" )
  => LastProposal.status = "rejected"

\* C8: a project whose freelancer is non-null has status in-progress,
\* completed or dispute.
C8_AssignedImpliesStarted ==
  \A p \in DOMAIN projects :
    projects[p].freelancer # NoOne =>
      projects[p].status \in {"in-progress", "completed", "dispute"}

C10_ClientListsOwnProjects ==
  ( /\ last.op = "getProposals"
    /\ RoleOf(last.caller) = "client"
    /\ last.project = << >>
    /\ last.status = Absent )
  => /\ last.code = 200
     /\ last.matched =
          {i \in DOMAIN proposals : projects[proposals[i].project].client = last.caller}
     /\ last.total = Cardinality(last.matched)

\* A client's unfiltered listing that matches a proposal while another
\* client's project has a proposal too.
C10_Witness ==
  /\ last.op = "getProposals"
  /\ RoleOf(last.caller) = "client"
  /\ last.project = << >>
  /\ last.status = Absent
  /\ last.matched # {}
  /\ \E i \in DOMAIN proposals : projects[proposals[i].project].client # last.caller

\* The caller owns the project a listing filter names.
OwnsFilteredProject ==
  /\ last.project[1] \in DOMAIN projects
  /\ projects[last.project[1]].client = last.caller

\* C11: a client who supplies a project filter in the proposal listing and
\* does not own that project gets 403 and no proposals, for every supplied
\* filter value.
C11_ForeignFilterForbidden ==
  ( /\ last.op = "getProposals"
    /\ RoleOf(last.caller) = "client"
    /\ last.project # << >>
    /\ ~OwnsFilteredProject )
  => /\ last.code = 403
     /\ last.items = << >>
     /\ last.matched = {}

\* C15: getProposalById answers 403 without the proposal to a non-admin who
\* is neither the proposal's freelancer nor the client of its project, and
\* answers an admin, the freelancer and that client with the proposal.
C15_ProposalReadAccess ==
  (last.op = "getProposalById" /\ last.caller # Anon /\ last.id \in DOMAIN proposals) =>
    IF \/ last.caller \in Admins
       \/ proposals[last.id].freelancer = last.caller
       \/ projects[proposals[last.id].project].client = last.caller
    THEN last.code = 200 /\ last.data = {last.id}
    ELSE last.code = 403 /\ last.data = {}

\* A freelancer is refused a proposal of another freelancer, on a project
\* where the caller has a proposal too.
C15_Witness ==
  /\ last.op = "getProposalById"
  /\ last.code = 403
  /\ RoleOf(last.caller) = "freelancer"
  /\ \E i \in DOMAIN proposals :
       /\ proposals[i].freelancer = last.caller
       /\ proposals[i].project = proposals[last.id].project

\* The position of proposal i in the matched proposals of the last listing,
\* in the order the request asked for (createdAt ascending, or the default
\* newest first).
ListPosition(i) ==
  1 + Cardinality({j \in last.matched :
                     IF last.sort = "createdAt" THEN j < i ELSE j > i})

C13_PublicListingOnlyOpen ==
  (last.op = "getProjects" /\ last.code = 200 /\ last.user = Anon) =>
    \A p \in last.items : projects[p].status = "open"

\* C14: the single-project fetch returns the project if and only if the
\* caller is an admin, the owning client or the assigned freelancer, or the
\* project is open; every other caller, the unauthenticated one on a project
\* that is not open included, gets 403.
C14_SingleFetchAccess ==
  (last.op = "getProject" /\ last.id \in DOMAIN projects) =>
    IF \/ last.caller \in Admins
       \/ projects[last.id].client = last.caller
       \/ projects[last.id].freelancer = last.caller
       \/ projects[last.id].status = "open"
    THEN last.code = 200 /\ last.data = {last.id}
    ELSE last.code = 403 /\ last.data = {}

\* The caller of the last request is an admin or the client of the project
\* the request's proposal belongs to.
LastCallerDecides ==
  last.caller \in Admins \/ last.projBefore.client = last.caller

\* C16: updateProposalStatus changes state only for the owning client or an
\* admin; a freelancer or a client who does not own the project gets 403, and
\* the proposal's status and the project stay as they were.
C16_OnlyOwnerOrAdminDecides ==
  ( /\ last.op = "updateProposalStatus"
    /\ last.prevStatus # Absent
    /\ last.status \in {"accepted", "rejected"}
    /\ ~LastCallerDecides )
  => /\ last.caller # Anon => last.code = 403
     /\ LastProposal.status = last.prevStatus
     /\ LastProject = last.projBefore

\* A client who does not own the project tries to reject the proposal that
\* was accepted and is refused.
C16_Witness ==
  /\ last.op = "updateProposalStatus"
  /\ last.status = "rejected"
  /\ last.prevStatus = "accepted"
  /\ RoleOf(last.caller) = "client"
  /\ ~LastCallerDecides
  /\ last.code = 403
  /\ LastProject.freelancer = LastProposal.freelancer

\* C17: withdrawProposal sets the status to withdrawn only for the
\* proposal's own freelancer or an admin; any other caller gets 403 and the
\* status stays as it was.
C17_OnlyOwnFreelancerWithdraws ==
  ( /\ last.op = "withdrawProposal"
    /\ last.prevStatus # Absent
    /\ last.caller \notin Admins
    /\ LastProposal.freelancer # last.caller )
  => /\ last.caller # Anon => last.code = 403
     /\ LastProposal.status = last.prevStatus
     /\ LastProject = last.projBefore

\* Another freelancer, with a proposal of their own on the project, tries to
\* withdraw a pending proposal and is refused.
C17_Witness ==
  /\ last.op = "withdrawProposal"
  /\ last.code = 403
  /\ RoleOf(last.caller) = "freelancer"
  /\ last.prevStatus = "pending"
  /\ \E i \in DOMAIN proposals : proposals[i].freelancer = last.caller

\* Requests a and b both answered 200 to an accept, of two different
\* proposals of one project.
BothAccepted(a, b) ==
  /\ a # b
  /\ inflight[a].pc = "done" /\ inflight[a].code = 200 /\ inflight[a].status = "accepted"
  /\ inflight[b].pc = "done" /\ inflight[b].code = 200 /\ inflight[b].status = "accepted"
  /\ inflight[a].id # inflight[b].id
  /\ inflight[a].doc.project = inflight[b].doc.project

\* C18: two accept calls on two different proposals of one project, served
\* concurrently, both succeed: both proposals end accepted and the project's
\* freelancer is only that of the call whose project write came last; no
\* lock or compare-and-swap refuses the second.
C18_BothAcceptsSucceed ==
  \A a, b \in DOMAIN inflight :
    (BothAccepted(a, b) /\ inflight[a].savedAt < inflight[b].savedAt) =>
      /\ proposals[inflight[a].id].status = "accepted"
      /\ proposals[inflight[b].id].status = "accepted"
      /\ projects[inflight[b].doc.project].freelancer = inflight[b].doc.freelancer
      /\ projects[inflight[b].doc.project].freelancer # inflight[a].doc.freelancer

\* Both accepts loaded the open, unassigned project before either saved it.
C18_Witness ==
  \E a, b \in DOMAIN inflight :
    /\ BothAccepted(a, b)
    /\ inflight[a].savedAt < inflight[b].savedAt
    /\ inflight[a].loaded.freelancer = NoOne
    /\ inflight[b].loaded.freelancer = NoOne
    /\ inflight[b].startedAt < inflight[a].savedAt
    /\ proposals[inflight[a].id].status = "accepted"
    /\ proposals[inflight[b].id].status = "accepted"
    /\ projects[inflight[b].doc.project].freelancer = inflight[b].doc.freelancer

\* C19: the failure of a non-blocking side effect neither fails the parent
\* operation nor undoes its writes: createProposal whose counter increment
\* fails still answers 201 with the proposal created, and
\* updateProposalStatus whose notification fails still answers 200 with the
\* proposal and project written.
C19_SideEffectFailureSwallowed ==
  /\ ( /\ last.op = "createProposal"
       /\ last.fault = "countSave"
       /\ RoleOf(last.caller) = "freelancer"
       /\ last.project \in DOMAIN projects
       /\ last.bodyOk
       /\ ~last.hadProposal )
     => /\ last.code = 201
        /\ last.id \in DOMAIN proposals
        /\ proposals[last.id] = NewProposal(last.project, last.caller)
  /\ ( /\ last.op = "updateProposalStatus"
       /\ last.fault = "emit"
       /\ last.prevStatus # Absent
       /\ LastCallerDecides )
     => /\ last.code = 200
        /\ LastProposal.status = last.status
        /\ last.status = "accepted" =>
             /\ LastProject.freelancer = LastProposal.freelancer
             /\ LastProject.status = "in-progress"
        /\ ( /\ last.status = "rejected"
             /\ last.prevStatus = "accepted"
             /\ last.projBefore.freelancer = LastProposal.freelancer )
           => LastProject.freelancer = NoOne /\ LastProject.status = "open"

\* An accept whose notification failed, of a proposal created while the
\* counter increment failed: the project holds fewer counts than proposals.
C19_Witness ==
  /\ last.op = "updateProposalStatus"
  /\ last.fault = "emit"
  /\ last.status = "accepted"
  /\ last.code = 200
  /\ LastProject.freelancer = LastProposal.freelancer
  /\ LastProject.proposalCount < Cardinality(DOMAIN proposals)

\* The invite list of the project of the last request, now.
LastInvites == projects[last.project].invitedFreelancers

\* C20: inviteFreelancer appends to the invite list only when the caller is
\* the owner or an admin, the project is open and the target is an existing
\* user with role freelancer; no invite list holds the same freelancer
\* twice; inviting an already invited freelancer answers 409 and leaves the
\* list as it was.
C20_InviteRules ==
  /\ (last.op = "inviteFreelancer" /\ last.project \in DOMAIN projects) =>
       /\ LastInvites # last.projBefore.invitedFreelancers =>
            /\ last.caller \in Admins \/ last.projBefore.client = last.caller
            /\ last.projBefore.status = "open"
            /\ last.target \in Users
            /\ RoleOf(last.target) = "freelancer"
            /\ LastInvites = Append(last.projBefore.invitedFreelancers, last.target)
       /\ ( /\ last.caller \in Admins \/ last.projBefore.client = last.caller
            /\ last.projBefore.status = "open"
            /\ AlreadyInvited(last.projBefore, last.target) )
          => /\ last.code = 409
             /\ LastInvites = last.projBefore.invitedFreelancers
  /\ \A p \in DOMAIN projects :
       \A j, k \in 1..Len(projects[p].invitedFreelancers) :
         projects[p].invitedFreelancers[j] = projects[p].invitedFreelancers[k] => j = k

\* C21: every operation of the admin namespace runs only for a caller whose
\* role is admin; a caller with another role or with no identity never
\* reaches an admin controller.
C21_AdminOnly ==
  (last.op = "admin" /\ last.reached) => last.caller \in Admins

\* The last request was a createProposal that created exactly one proposal,
\* pending and owned by the caller, and left the others as they were.
CreatedOne ==
  /\ last.id \notin DOMAIN last.propsBefore
  /\ DOMAIN proposals = DOMAIN last.propsBefore \cup {last.id}
  /\ proposals[last.id] = NewProposal(last.project, last.caller)
  /\ \A i \in DOMAIN last.propsBefore : proposals[i] = last.propsBefore[i]

\* The last request was a createProposal that created nothing and left the
\* project's proposalCount as it was.
CreatedNone ==
  /\ proposals = last.propsBefore
  /\ last.project \in DOMAIN projects =>
       projects[last.project].proposalCount = last.countBefore

\* C22 as claimed: every successful createProposal creates exactly one
\* pending proposal of the caller and increases the project's proposalCount
\* by exactly 1; a failed one creates nothing and leaves the count.
C22_CreateCountsOne ==
  last.op = "createProposal" =>
    IF last.code = 201
      THEN CreatedOne /\ projects[last.project].proposalCount = last.countBefore + 1
      ELSE CreatedNone

\* C22, amended: every successful createProposal creates exactly one pending
\* proposal of the caller and increases the project's proposalCount by
\* exactly 1 unless the save of the counter fails, in which case the count
\* stays as it was; a failed one creates nothing and leaves the count.
C22_CreateCountsOneUnlessSaveFails ==
  last.op = "createProposal" =>
    IF last.code = 201
      THEN /\ CreatedOne
           /\ projects[last.project].proposalCount =
                last.countBefore + (IF last.fault = "countSave" THEN 0 ELSE 1)
      ELSE CreatedNone

\* A second proposal is created for the project while the save of the
\* counter fails: the count stays at one.
C22_Witness ==
  /\ last.op = "createProposal"
  /\ last.code = 201
  /\ last.fault = "countSave"
  /\ last.countBefore = 1
  /\ projects[last.project].proposalCount = 1
  /\ Cardinality(DOMAIN proposals) = 2

\* C23: in every reachable state the status of each project is one of draft,
\* open, in-progress, completed, cancelled, dispute.
C23_StatusInEnum ==
  \A p \in DOMAIN projects : projects[p].status \in ProjectStatusEnum

\* C24: deleteProposal is performed only for the proposal's own freelancer
\* or an admin, removes the proposal, and changes no field of the project,
\* also when the deleted proposal was the accepted one.
C24_DeleteLeavesProject ==
  (last.op = "deleteProposal" /\ last.prevStatus # Absent) =>
    /\ LastProject = last.projBefore
    /\ IF last.caller \in Admins \/ last.freelancer = last.caller
         THEN last.code = 200 /\ last.id \notin DOMAIN proposals
         ELSE last.code \in {401, 403} /\ last.id \in DOMAIN proposals

\* The freelancer the project is assigned to deletes the accepted proposal.
C24_Witness ==
  /\ last.op = "deleteProposal"
  /\ last.code = 200
  /\ last.prevStatus = "accepted"
  /\ last.caller = last.freelancer
  /\ LastProject.freelancer = last.freelancer
  /\ LastProject.status = "in-progress"
  /\ last.id \notin DOMAIN proposals

\* C28 as claimed: in every state reachable through the proposal operations
\* from unassigned projects, a project whose freelancer is a user F has a
\* proposal by F whose status is accepted.
C28_AssignedHasAccepted ==
  \A p \in DOMAIN projects :
    projects[p].freelancer # NoOne =>
      \E i \in DOMAIN proposals :
        /\ proposals[i].project = p
        /\ proposals[i].freelancer = projects[p].freelancer
        /\ proposals[i].status = "accepted"

\* C28, amended: submit, accept and reject keep the property (from a state
\* where every assigned freelancer has an accepted proposal on the project
\* they lead to such a state); withdraw and delete of the accepted proposal
\* leave the project assigned and do not keep it.
C28_DecisionsKeepAssignedAccepted ==
  [][ ( /\ C28_AssignedHasAccepted
        /\ last'.op \in {"createProposal", "updateProposalStatus"} )
      => C28_AssignedHasAccepted' ]_vars

\* A second accept moved the project to another freelancer while the first
\* proposal is still accepted.
C28_Witness ==
  /\ last.op = "updateProposalStatus"
  /\ last.code = 200
  /\ last.status = "accepted"
  /\ last.projBefore.freelancer # NoOne
  /\ last.projBefore.freelancer # LastProposal.freelancer
  /\ LastProject.freelancer = LastProposal.freelancer
  /\ C28_AssignedHasAccepted

\* C25: the proposal write and the project write of an accept are separate
\* steps with no rollback: when the project write fails after the proposal
\* write, the proposal stays accepted, the project keeps its previous
\* freelancer and status, and the caller receives an error response.
C25_NoRollbackOnProjectFailure ==
  ( /\ last.op = "updateProposalStatus"
    /\ last.fault = "projectSave"
    /\ last.status = "accepted"
    /\ last.prevStatus # Absent
    /\ LastCallerDecides )
  => /\ last.code = 500
     /\ LastProposal.status = "accepted"
     /\ LastProject = last.projBefore

\* The accept of a pending proposal fails at the project write while the
\* project is assigned to another freelancer.
C25_Witness ==
  /\ last.op = "updateProposalStatus"
  /\ last.fault = "projectSave"
  /\ last.status = "accepted"
  /\ last.prevStatus = "pending"
  /\ last.code = 500
  /\ LastProposal.status = "accepted"
  /\ LastProject.freelancer # NoOne
  /\ LastProject.freelancer # LastProposal.freelancer

\* Request a is a completed reversal (the reject of an accepted proposal)
\* and request b a completed accept of another proposal of the same project.
ReversalAndAccept(a, b) ==
  /\ a # b
  /\ inflight[a].pc = "done" /\ inflight[a].code = 200
  /\ inflight[a].status = "rejected" /\ inflight[a].prevStatus = "accepted"
  /\ inflight[b].pc = "done" /\ inflight[b].code = 200
  /\ inflight[b].status = "accepted"
  /\ inflight[a].id # inflight[b].id
  /\ inflight[a].doc.project = inflight[b].doc.project

\* C26: under every interleaving of a reversal with an accept of another
\* proposal on the same project the reversal never clears the assignment to
\* the accepted freelancer: no execution ends with the accept completed and
\* the project unassigned and open through the reversal's write.
C26_ReversalNeverClobbers ==
  \A a, b \in DOMAIN inflight :
    ( /\ ReversalAndAccept(a, b)
      /\ inflight[a].savedAt > inflight[b].savedAt
      /\ inflight[b].savedAt > 0 )
    => ~( /\ projects[inflight[a].doc.project].freelancer = NoOne
          /\ projects[inflight[a].doc.project].status = "open" )

\* C27: after any interleaving of successful createProposal calls by
\* different freelancers on one project the project's proposalCount equals
\* the number of proposals that exist for it.
C27_CountMatchesProposals ==
  (\A r \in DOMAIN inflight : inflight[r].pc \in {"idle", "done"}) =>
    \A p \in DOMAIN projects :
      projects[p].proposalCount =
        Cardinality({i \in DOMAIN proposals : proposals[i].project = p})

\* C29: the revertedToOpen flag of the client notification is true exactly
\* when the call cleared the project's freelancer and set its status to
\* open, and false when the project was left untouched because it is
\* assigned to another freelancer.
C29_RevertedFlagExact ==
  (last.op = "updateProposalStatus" /\ last.code = 200) =>
    (last.revertedToOpen <=>
       /\ last.projBefore.freelancer # NoOne
       /\ LastProject.freelancer = NoOne
       /\ LastProject.status = "open")

\* C30: for an authenticated caller who is not an admin, every project the
\* listing returns, under every combination of its parameters, is one the
\* single-project fetch would show that caller: open, owned by the caller
\* or assigned to the caller.
C30_ListingWithinFetchVisibility ==
  (/\ last.op = "getProjects"
   /\ last.code = 200
   /\ last.user # Anon
   /\ RoleOf(last.user) # "admin") =>
    \A p \in last.items :
      \/ projects[p].status = "open"
      \/ projects[p].client = last.user
      \/ projects[p].freelancer = last.user
====
